---- MODULE Spec2Model ----
(***************************************************************************)
(* Model of the two scripts of the repository:                             *)
(*   afcon_analysis.py        TeamStats, AFCONAnalyzer, main               *)
(*   fuel_price_prediction.py regression trend classification and summary  *)
(*                                                                         *)
(* Python floats are IEEE-754 binary64.  The prediction heuristic compares *)
(* a float sum with 0 and divides by it, so the float arithmetic is        *)
(* modelled bit-exactly: a float is sign, 53-bit significand and exponent, *)
(* every operation rounds to nearest, ties to even.  Significands do not   *)
(* fit the model checker's integers, hence naturals are kept as            *)
(* little-endian sequences of limbs of LimbBits bits.                      *)
(*                                                                         *)
(* Intermediate values are handed on as operator arguments, one step per   *)
(* operator, in the order the code computes them.                          *)
(***************************************************************************)
EXTENDS Integers, Sequences, FiniteSets, TLC

(***************************************************************************)
(* Arbitrary-size naturals: <<>> is 0, no high zero limb.                  *)
(***************************************************************************)
LimbBits == 14
Base == 2 ^ LimbBits

Pow2(n) == 2 ^ n

BZero == << >>
BOne == << 1 >>

Limb(a, i) == IF i \in 1..Len(a) THEN a[i] ELSE 0

Min(m, n) == IF m < n THEN m ELSE n

Tl(a) == IF a = << >> THEN << >> ELSE Tail(a)

RECURSIVE BNorm(_)
BNorm(a) ==
    IF a = << >> THEN << >>
    ELSE IF a[Len(a)] = 0 THEN BNorm(SubSeq(a, 1, Len(a) - 1))
    ELSE a

RECURSIVE BFromInt(_)
BFromInt(n) ==
    IF n = 0 THEN << >> ELSE << n % Base >> \o BFromInt(n \div Base)

\* a + b + c, limb by limb
RECURSIVE BAddC(_, _, _)
BAddC(a, b, c) ==
    IF a = << >> /\ b = << >>
    THEN (IF c = 0 THEN << >> ELSE << c >>)
    ELSE IF Limb(a, 1) + Limb(b, 1) + c < Base
    THEN << Limb(a, 1) + Limb(b, 1) + c >> \o BAddC(Tl(a), Tl(b), 0)
    ELSE << Limb(a, 1) + Limb(b, 1) + c - Base >> \o BAddC(Tl(a), Tl(b), 1)

BAdd(a, b) == BAddC(a, b, 0)

\* a - b - c for a >= b + c, limb by limb
RECURSIVE BSubC(_, _, _)
BSubC(a, b, c) ==
    IF a = << >> THEN << >>
    ELSE IF a[1] - Limb(b, 1) - c < 0
    THEN << a[1] - Limb(b, 1) - c + Base >> \o BSubC(Tail(a), Tl(b), 1)
    ELSE << a[1] - Limb(b, 1) - c >> \o BSubC(Tail(a), Tl(b), 0)

BSub(a, b) == BNorm(BSubC(a, b, 0))

\* -1, 0, 1 as a < b, a = b, a > b
RECURSIVE BCmpAt(_, _, _)
BCmpAt(a, b, i) ==
    IF i = 0 THEN 0
    ELSE IF a[i] < b[i] THEN -1
    ELSE IF a[i] > b[i] THEN 1
    ELSE BCmpAt(a, b, i - 1)

BCmp(a, b) ==
    IF Len(a) < Len(b) THEN -1
    ELSE IF Len(a) > Len(b) THEN 1
    ELSE BCmpAt(a, b, Len(a))

\* a * k + c for 0 <= k < Base and c < Base, limb by limb
RECURSIVE BMulSmallC(_, _, _)
BMulSmallC(a, k, c) ==
    IF a = << >> THEN (IF c = 0 THEN << >> ELSE << c >>)
    ELSE << (a[1] * k + c) % Base >> \o BMulSmallC(Tail(a), k, (a[1] * k + c) \div Base)

BMulSmall(a, k) == IF k = 0 THEN << >> ELSE BMulSmallC(a, k, 0)

RECURSIVE BMul(_, _)
BMul(a, b) ==
    IF b = << >> \/ a = << >> THEN << >>
    ELSE BAdd(BMulSmall(a, b[1]), << 0 >> \o BMul(a, Tail(b)))

\* a * 2^n
BShl(a, n) ==
    IF a = << >> THEN << >>
    ELSE [i \in 1..(n \div LimbBits) |-> 0] \o BMulSmall(a, Pow2(n % LimbBits))

\* floor(a / 2^n): limb i takes the high bits of limb i + w and the low bits of the limb above
BShrLimb(a, i, s) == a[i] \div Pow2(s) + (Limb(a, i + 1) % Pow2(s)) * Pow2(LimbBits - s)

BShr(a, n) ==
    BNorm([i \in 1..(Len(a) - n \div LimbBits) |->
              BShrLimb(a, i + n \div LimbBits, n % LimbBits)])

\* the number of bits of a limb
IntBitLen(n) == Cardinality({ k \in 0..(LimbBits - 1) : Pow2(k) <= n })

BBitLen(a) ==
    IF a = << >> THEN 0 ELSE LimbBits * (Len(a) - 1) + IntBitLen(a[Len(a)])

BOdd(a) == a # << >> /\ a[1] % 2 = 1

\* the digit floor(r / b) for r < b * Base and the top limb of b at least
\* Base / 2: est, found from the two top limbs of r, is the digit or
\* exceeds it by at most 2
BDigitFrom(r, b, est) ==
    IF BCmp(BMulSmall(b, est), r) <= 0 THEN est
    ELSE IF BCmp(BMulSmall(b, est - 1), r) <= 0 THEN est - 1
    ELSE est - 2

BDigit(r, b) ==
    BDigitFrom(r, b, Min(Base - 1,
                         (Limb(r, Len(b) + 1) * Base + Limb(r, Len(b))) \div b[Len(b)]))

\* long division by b, the top limb of b at least Base / 2: r2 is the
\* remainder of the limbs of a above limb i followed by limb i; the result
\* is the quotient digits i..1 and the remainder
RECURSIVE BDivModAt(_, _, _, _)
BDivLow(a, b, i, r, k) ==
    IF i = 1 THEN [q |-> << k >>, r |-> r]
    ELSE [BDivModAt(a, b, i - 1, BNorm(<< a[i - 1] >> \o r)) EXCEPT !.q = @ \o << k >>]

BDivDigit(a, b, i, r2, k) == BDivLow(a, b, i, BSub(r2, BMulSmall(b, k)), k)

BDivModAt(a, b, i, r2) ==
    IF BCmp(r2, b) < 0 THEN BDivLow(a, b, i, r2, 0)
    ELSE BDivDigit(a, b, i, r2, BDigit(r2, b))

\* the quotient has Len(a) - Len(b) + 1 digits: the limbs of a above them are less than b
BDivModLong(a, b) ==
    IF Len(a) < Len(b) THEN [q |-> BZero, r |-> a]
    ELSE BDivModAt(a, b, Len(a) - Len(b) + 1, SubSeq(a, Len(a) - Len(b) + 1, Len(a)))

\* a and b shifted by s bits, which brings the top limb of b to Base / 2 or above
BDivModShifted(qr, s) == [q |-> BNorm(qr.q), r |-> BShr(qr.r, s)]

BDivModBy(a, b, s) == BDivModShifted(BDivModLong(BShl(a, s), BShl(b, s)), s)

\* floor(a / b) and a mod b for b # 0
BDivMod(a, b) == BDivModBy(a, b, LimbBits - IntBitLen(b[Len(b)]))

(***************************************************************************)
(* binary64: (-1)^sg * m * 2^e with m = 0, or 2^52 <= m < 2^53.            *)
(***************************************************************************)
MantBits == 53

FZero == [sg |-> 0, m |-> BZero, e |-> 0]

\* the exact value (-1)^sg * (num / den) * 2^e
Exact(sg, num, den, e) == [sg |-> sg, num |-> num, den |-> den, e |-> e]

\* q rounded at bit d to the nearest, ties to even; sticky says
\* that the value q stands for is larger than q; c compares the bits
\* dropped with one half
RoundShiftC(m, sticky, c) ==
    IF c > 0 \/ (c = 0 /\ (sticky \/ BOdd(m))) THEN BAdd(m, BOne) ELSE m

RoundShiftM(q, d, sticky, m) ==
    RoundShiftC(m, sticky, BCmp(BSub(q, BShl(m, d)), BShl(BOne, d - 1)))

RoundShift(q, d, sticky) ==
    IF d = 0 THEN q ELSE RoundShiftM(q, d, sticky, BShr(q, d))

\* the shift that gives the quotient at least two bits beyond the significand
Scale(bl) == IF bl >= MantBits + 2 THEN 0 ELSE MantBits + 2 - bl

QuotOf(qr, e) == [q |-> qr.q, sticky |-> qr.r # << >>, e |-> e]

QuotAt(r, s) == QuotOf(BDivMod(BShl(r.num, s), r.den), r.e - s)

Quot(r) == QuotAt(r, Scale(BBitLen(r.num) - BBitLen(r.den)))

\* the rounded significand may have reached 2^53
Normal(sg, e, m) ==
    IF BBitLen(m) > MantBits THEN [sg |-> sg, m |-> BShr(m, 1), e |-> e + 1]
    ELSE [sg |-> sg, m |-> m, e |-> e]

RoundAt(sg, Q, d) == Normal(sg, Q.e + d, RoundShift(Q.q, d, Q.sticky))

RoundQ(sg, Q) ==
    IF Q.q = << >> THEN FZero ELSE RoundAt(sg, Q, BBitLen(Q.q) - MantBits)

\* the binary64 nearest to the exact value r, ties to even
RoundRat(r) == RoundQ(r.sg, Quot(r))

Abs(n) == IF n < 0 THEN -n ELSE n

SignOf(n) == IF n < 0 THEN 1 ELSE 0

\* float(n) for a Python int n
FInt(n) == RoundRat(Exact(SignOf(n), BFromInt(Abs(n)), BOne, 0))

\* the float written as the decimal literal n / 10^k
FDec(n, k) == RoundRat(Exact(SignOf(n), BFromInt(Abs(n)), BFromInt(10 ^ k), 0))

FIsZero(x) == x.m = << >>
FNeg(x) == IF FIsZero(x) THEN x ELSE [x EXCEPT !.sg = 1 - x.sg]
FPositive(x) == ~FIsZero(x) /\ x.sg = 0

FMul(x, y) ==
    IF FIsZero(x) \/ FIsZero(y) THEN FZero
    ELSE RoundRat(Exact((x.sg + y.sg) % 2, BMul(x.m, y.m), BOne, x.e + y.e))

\* X, Y are the significands brought to the common exponent e; c compares them
AddSigned(sx, X, sy, Y, e, c) ==
    IF c = 0 THEN Exact(0, BZero, BOne, 0)
    ELSE IF c > 0 THEN Exact(sx, BSub(X, Y), BOne, e)
    ELSE Exact(sy, BSub(Y, X), BOne, e)

AddAligned(sx, X, sy, Y, e) ==
    IF sx = sy THEN Exact(sx, BAdd(X, Y), BOne, e)
    ELSE AddSigned(sx, X, sy, Y, e, BCmp(X, Y))

AddAt(x, y, e) == AddAligned(x.sg, BShl(x.m, x.e - e), y.sg, BShl(y.m, y.e - e), e)

FAdd(x, y) ==
    IF FIsZero(x) THEN y
    ELSE IF FIsZero(y) THEN x
    ELSE RoundRat(AddAt(x, y, IF x.e < y.e THEN x.e ELSE y.e))

FSub(x, y) == FAdd(x, FNeg(y))

\* x / y for y # 0
FDiv(x, y) ==
    IF FIsZero(x) THEN FZero
    ELSE RoundRat(Exact((x.sg + y.sg) % 2, x.m, y.m, x.e - y.e))

(***************************************************************************)
(* Decimal numbers with a fixed number of fraction digits, as Python       *)
(* prints them: (-1)^sg * mag / 10^nd.                                     *)
(***************************************************************************)
Dec(sg, mag) == [sg |-> IF mag = << >> THEN 0 ELSE sg, mag |-> mag]

\* built-in round(x, nd) of a float: the exact binary value is rounded to
\* nd decimals, ties to even; the result is the integer x * 10^nd rounded
DecRound(x, nd) ==
    IF FIsZero(x) THEN Dec(0, BZero)
    ELSE IF x.e >= 0 THEN Dec(x.sg, BShl(BMulSmall(x.m, 10 ^ nd), x.e))
    ELSE Dec(x.sg, RoundShift(BMulSmall(x.m, 10 ^ nd), -x.e, FALSE))

\* the float nearest to the decimal d with nd fraction digits
FOfDec(d, nd) ==
    IF d.mag = << >> THEN FZero
    ELSE RoundRat(Exact(d.sg, d.mag, BFromInt(10 ^ nd), 0))

\* round(x, nd) as the float Python returns
FRound(x, nd) == FOfDec(DecRound(x, nd), nd)

DecOfInt(n) == Dec(SignOf(n), BFromInt(Abs(n)))

\* d1 + d2 of two decimals with the same number of fraction digits
DecAddSigned(d1, d2, c) ==
    IF c = 0 THEN Dec(0, BZero)
    ELSE IF c > 0 THEN Dec(d1.sg, BSub(d1.mag, d2.mag))
    ELSE Dec(d2.sg, BSub(d2.mag, d1.mag))

DecAdd(d1, d2) ==
    IF d1.sg = d2.sg THEN Dec(d1.sg, BAdd(d1.mag, d2.mag))
    ELSE DecAddSigned(d1, d2, BCmp(d1.mag, d2.mag))

\* d1 <= d2
DecLeq(d1, d2) ==
    IF d1.sg = 1 /\ d2.sg = 0 THEN TRUE
    ELSE IF d1.sg = 0 /\ d2.sg = 1 THEN d1.mag = << >> /\ d2.mag = << >>
    ELSE IF d1.sg = 0 THEN BCmp(d1.mag, d2.mag) <= 0
    ELSE BCmp(d2.mag, d1.mag) <= 0

(***************************************************************************)
(* afcon_analysis.py: TeamStats                                            *)
(***************************************************************************)
ZeroDivisionError == [fault |-> "ZeroDivisionError"]
None == [none |-> TRUE]

\* a / b of two Python ints
TrueDiv(a, b) ==
    IF b = 0 THEN ZeroDivisionError
    ELSE RoundRat(Exact(SignOf(a), BFromInt(Abs(a)), BFromInt(b), 0))

\* x * 100, an exception passing through
Times100(x) == IF x = ZeroDivisionError THEN x ELSE FMul(x, FInt(100))

\* round(x, nd), an exception passing through
Round(x, nd) == IF x = ZeroDivisionError THEN x ELSE FRound(x, nd)

goal_difference(t) == t.goals_for - t.goals_against

\* the guard tests the goals instead of the matches
avg_goals_per_match_goals_guard(t) ==
    IF t.goals_for = 0 THEN FZero
    ELSE Round(TrueDiv(t.goals_for, t.matches_played), 2)

avg_goals_per_match(t) ==
    IF t.matches_played = 0 THEN FZero
    ELSE Round(TrueDiv(t.goals_for, t.matches_played), 2)

win_percentage(t) ==
    IF t.matches_played = 0 THEN FZero
    ELSE Round(Times100(TrueDiv(t.wins, t.matches_played)), 2)

defense_strength(t) ==
    IF t.matches_played = 0 THEN FZero
    ELSE Round(TrueDiv(t.goals_against, t.matches_played), 2)

\* the three float properties of a team, each evaluated once
Properties(t) ==
    [avg_goals_per_match |-> avg_goals_per_match(t),
     defense_strength    |-> defense_strength(t),
     win_percentage      |-> win_percentage(t)]

\* the two float properties the prediction reads
ScoreInputs(t) ==
    [avg_goals_per_match |-> avg_goals_per_match(t),
     defense_strength    |-> defense_strength(t)]

(***************************************************************************)
(* afcon_analysis.py: AFCONAnalyzer.  self.teams is a dict; it keeps its   *)
(* keys in insertion order, so it is a sequence of records with distinct   *)
(* names.                                                                  *)
(***************************************************************************)
\* teams   self.teams of the analyzer
\* pc      "idle", or "returned" while the caller holds the value of a call
\* result  the call just made and the value it returned
\* first_added  the names add_team was called with, in the order of their
\*              first call (history, read by no operation)
\* df, fuel_idx, predictions, summary: state of fuel_price_prediction.py
VARIABLES teams, pc, result, first_added, df, fuel_idx, predictions, summary

vars == << teams, pc, result, first_added, df, fuel_idx, predictions, summary >>

HasTeam(ts, name) == \E i \in 1..Len(ts) : ts[i].name = name

IndexOf(ts, name) == CHOOSE i \in 1..Len(ts) : ts[i].name = name

\* a key set again moves to the end
DictSetMoveToEnd(ts, t) ==
    Append(SelectSeq(ts, LAMBDA u : u.name # t.name), t)

\* self.teams[team.name] = team
DictSet(ts, t) ==
    IF HasTeam(ts, t.name) THEN [ts EXCEPT ![IndexOf(ts, t.name)] = t]
    ELSE Append(ts, t)

get_team(ts, name) == IF HasTeam(ts, name) THEN ts[IndexOf(ts, name)] ELSE None

NotFound == [error |-> "One or both teams not found"]
AttributeError == [fault |-> "AttributeError"]

\* "and" in place of "or"
MissingBoth(team1, team2) == team1 = None /\ team2 = None

\* not team1 or not team2
Missing(team1, team2) == team1 = None \/ team2 = None

\* an exception raised by a property leaves the method
Raised(props) ==
    \E i \in DOMAIN props : \E k \in DOMAIN props[i] : props[i][k] = ZeroDivisionError

\* {k1: v1, k2: v2}: the later key wins when the two are the same
Dict2(k1, v1, k2, v2) == [k \in {k1, k2} |-> IF k = k2 THEN v2 ELSE v1]

\* the dict compare_teams returns; p[i] are the properties of team i, the
\* floats shown with the two decimals they were rounded to
comparison_of(n1, n2, team1, team2, p) ==
    IF Raised(p) THEN ZeroDivisionError
    ELSE [match_up           |-> << n1, n2 >>,
          fifa_ranks         |-> Dict2(n1, team1.fifa_rank, n2, team2.fifa_rank),
          points             |-> Dict2(n1, team1.points, n2, team2.points),
          goal_difference    |-> Dict2(n1, goal_difference(team1), n2, goal_difference(team2)),
          offensive_power    |-> Dict2(n1, p[1].avg_goals_per_match, n2, p[2].avg_goals_per_match),
          defensive_strength |-> Dict2(n1, p[1].defense_strength, n2, p[2].defense_strength),
          win_percentage     |-> Dict2(n1, p[1].win_percentage, n2, p[2].win_percentage),
          recent_form        |-> Dict2(n1, team1.matches_played, n2, team2.matches_played)]

\* a property as the decimal with nd digits it prints as
Shown(x, nd) == IF x = ZeroDivisionError THEN x ELSE DecRound(x, nd)

ShownProperties(p) == [k \in DOMAIN p |-> Shown(p[k], 2)]

compare_found(n1, n2, team1, team2) ==
    IF Missing(team1, team2) THEN NotFound
    ELSE IF team1 = None \/ team2 = None THEN AttributeError
    ELSE comparison_of(n1, n2, team1, team2,
                       << ShownProperties(Properties(team1)), ShownProperties(Properties(team2)) >>)

compare_teams(ts, n1, n2) == compare_found(n1, n2, get_team(ts, n1), get_team(ts, n2))

\* (11 - rank) * 0.3 + avg * 2 + (2 - defense) * 1.5, left to right
team_score(rank, p) ==
    FAdd(FAdd(FMul(FInt(11 - rank), FDec(3, 1)),
              FMul(p.avg_goals_per_match, FInt(2))),
         FMul(FSub(FInt(2), p.defense_strength), FDec(15, 1)))

team1_win_prob(team1_score, total_score) ==
    IF FPositive(total_score)
    THEN FMul(FDiv(team1_score, total_score), FInt(100))
    ELSE FInt(50)

team2_win_prob(p1) == FSub(FInt(100), p1)

\* the dict predict_outcome returns; probs and goals are rounded to 1 decimal
prediction_of(n1, n2, probs, goals) ==
    [match           |-> << n1, n2 >>,
     prediction      |-> Dict2(n1, probs[1], n2, probs[2]),
     estimated_goals |-> Dict2(n1, goals[1], n2, goals[2])]

predict_probs(n1, n2, p, p1) ==
    prediction_of(n1, n2,
                  << DecRound(p1, 1), DecRound(team2_win_prob(p1), 1) >>,
                  << DecRound(p[1].avg_goals_per_match, 1), DecRound(p[2].avg_goals_per_match, 1) >>)

predict_scores(n1, n2, p, score) ==
    predict_probs(n1, n2, p, team1_win_prob(score[1], FAdd(score[1], score[2])))

predict_props(n1, n2, rank, p) ==
    IF Raised(p) THEN ZeroDivisionError
    ELSE predict_scores(n1, n2, p, << team_score(rank[1], p[1]), team_score(rank[2], p[2]) >>)

predict_found(n1, n2, team1, team2) ==
    IF Missing(team1, team2) THEN NotFound
    ELSE IF team1 = None \/ team2 = None THEN AttributeError
    ELSE predict_props(n1, n2, << team1.fifa_rank, team2.fifa_rank >>,
                       << ScoreInputs(team1), ScoreInputs(team2) >>)

predict_outcome(ts, n1, n2) == predict_found(n1, n2, get_team(ts, n1), get_team(ts, n2))

\* the key without its second component
KeyGreaterPointsOnly(a, b) == a.points > b.points

\* the sort key (points, goal_difference) of a is greater than that of b
KeyGreater(a, b) ==
    \/ a.points > b.points
    \/ a.points = b.points /\ goal_difference(a) > goal_difference(b)

\* sorted(..., reverse=True) is stable: t goes after the entries whose key
\* is greater than or equal to its own
RECURSIVE InsertSorted(_, _)
InsertSorted(s, t) ==
    IF s = << >> THEN << t >>
    ELSE IF KeyGreater(t, s[1]) THEN << t >> \o s
    ELSE << s[1] >> \o InsertSorted(Tail(s), t)

RECURSIVE SortedDesc(_)
SortedDesc(s) ==
    IF s = << >> THEN << >>
    ELSE InsertSorted(SortedDesc(SubSeq(s, 1, Len(s) - 1)), s[Len(s)])

InGroup(g, t) == t.group = g

RECURSIVE GroupTeams(_, _)
GroupTeams(ts, g) ==
    IF ts = << >> THEN << >>
    ELSE (IF InGroup(g, ts[1]) THEN << ts[1] >> ELSE << >>) \o GroupTeams(Tail(ts), g)

\* one entry of the standings
standing(idx, team) ==
    [position        |-> idx,
     team            |-> team.name,
     points          |-> team.points,
     matches         |-> team.matches_played,
     wins            |-> team.wins,
     draws           |-> team.draws,
     losses          |-> team.losses,
     goals_for       |-> team.goals_for,
     goals_against   |-> team.goals_against,
     goal_difference |-> goal_difference(team)]

standings_of(sorted_teams) ==
    [idx \in 1..Len(sorted_teams) |-> standing(idx, sorted_teams[idx])]

analyze_group(ts, g) == standings_of(SortedDesc(GroupTeams(ts, g)))

KeyError == [fault |-> "KeyError"]

\* comparison["error"] when present, else the lines built from the other keys
format_comparison(comparison) ==
    IF "fault" \in DOMAIN comparison THEN comparison
    ELSE IF "error" \in DOMAIN comparison THEN [text |-> comparison.error]
    ELSE [match_up           |-> comparison.match_up,
          fifa_ranks         |-> comparison.fifa_ranks,
          points             |-> comparison.points,
          goal_difference    |-> comparison.goal_difference,
          offensive_power    |-> comparison.offensive_power,
          defensive_strength |-> comparison.defensive_strength]

\* the four prediction lines of one match; prediction['prediction'] and
\* prediction['estimated_goals'] are read without a check
PredictionLines(prediction, n1, n2) ==
    IF "fault" \in DOMAIN prediction THEN prediction
    ELSE IF "prediction" \notin DOMAIN prediction \/ "estimated_goals" \notin DOMAIN prediction
    THEN KeyError
    ELSE [win1   |-> prediction.prediction[n1],
          win2   |-> prediction.prediction[n2],
          goals1 |-> prediction.estimated_goals[n1],
          goals2 |-> prediction.estimated_goals[n2]]

\* the two matches generate_report is written for
Fixtures == << << "Ivory Coast", "Mozambique" >>, << "Cameroon", "Gabon" >> >>

\* the comparison section and the prediction section of one match
match_section(ts, n1, n2) ==
    [comparison |-> format_comparison(compare_teams(ts, n1, n2)),
     prediction |-> PredictionLines(predict_outcome(ts, n1, n2), n1, n2)]

\* the text of the report, or the first exception in the order of the code
report_of(section, standings) ==
    IF "fault" \in DOMAIN section[1].comparison THEN section[1].comparison
    ELSE IF "fault" \in DOMAIN section[1].prediction THEN section[1].prediction
    ELSE IF "fault" \in DOMAIN section[2].comparison THEN section[2].comparison
    ELSE IF "fault" \in DOMAIN section[2].prediction THEN section[2].prediction
    ELSE [match1    |-> section[1].comparison,
          lines1    |-> section[1].prediction,
          match2    |-> section[2].comparison,
          lines2    |-> section[2].prediction,
          standings |-> standings]

generate_report(ts) ==
    report_of(<< match_section(ts, Fixtures[1][1], Fixtures[1][2]),
                 match_section(ts, Fixtures[2][1], Fixtures[2][2]) >>,
              analyze_group(ts, "A"))

(***************************************************************************)
(* The records main() adds, and the records the calls are made with.       *)
(***************************************************************************)
TeamStats(name, group, rank, played, wins, draws, losses, gf, ga, points) ==
    [name |-> name, group |-> group, fifa_rank |-> rank,
     matches_played |-> played, wins |-> wins, draws |-> draws,
     losses |-> losses, goals_for |-> gf,
     goals_against |-> ga, points |-> points]

IvoryCoast == TeamStats("Ivory Coast", "A", 9, 1, 1, 0, 0, 2, 0, 3)
Mozambique == TeamStats("Mozambique", "A", 92, 0, 0, 0, 0, 0, 0, 0)
Cameroon == TeamStats("Cameroon", "A", 43, 0, 0, 0, 0, 0, 0, 0)
Gabon == TeamStats("Gabon", "A", 75, 1, 0, 1, 0, 1, 1, 1)

MainTeams == { IvoryCoast, Mozambique, Cameroon, Gabon }

Names == { t.name : t \in MainTeams }
Groups == { "A", "B" }


\* bounds of the records the calls are checked with
MaxRank == 14
MaxPlayed == 1
MaxWins == 1
MaxFor == 1
MaxAgainst == 2
MaxPoints == 1

\* records other than main()'s that add_team is called with: Mozambique
\* after a lost match, Gabon in another group
OtherTeams ==
    { TeamStats("Mozambique", "A", 20, 1, 0, 0, 1, 0, 1, p) : p \in 0..MaxPoints }
        \cup { [Gabon EXCEPT !.group = g] : g \in Groups \ { "A" } }

TeamPool == MainTeams \cup OtherTeams

\* any record under a name
StatSpace(name) ==
    { TeamStats(name, "A", r, mp, w, 0, 0, gf, ga, 0) :
        r \in 1..MaxRank, mp \in 0..MaxPlayed, w \in 0..MaxWins,
        gf \in 0..MaxFor, ga \in 0..MaxAgainst }

\* an opponent of any rank that lost its only match 0-1
OpponentSpace(name) ==
    { TeamStats(name, "A", r, 1, 0, 0, 1, 0, 1, 0) : r \in 1..MaxRank }

NoCall == [op |-> "none", args |-> << >>, ret |-> None]

(***************************************************************************)
(* fuel_price_prediction.py, prices in cents                               *)
(***************************************************************************)
fuel_types == << "Petrol (95 ULP)", "Diesel (0.05% Sulphur)", "LPG" >>

petrol_prices ==
    << 2050, 2075, 2085, 2110, 2135, 2180, 2215, 2195, 2165, 2140, 2120, 2095 >>

diesel_prices ==
    << 2020, 2040, 2055, 2085, 2115, 2165, 2205, 2185, 2150, 2125, 2100, 2075 >>

lpg_prices ==
    << 1250, 1260, 1275, 1300, 1325, 1355, 1385, 1375, 1345, 1320, 1295, 1270 >>

DataFrame ==
    [f \in { fuel_types[i] : i \in 1..3 } |->
        IF f = fuel_types[1] THEN petrol_prices
        ELSE IF f = fuel_types[2] THEN diesel_prices
        ELSE lpg_prices]

month_numbers == [i \in 1..12 |-> i]

RECURSIVE SumSeq(_)
SumSeq(s) == IF s = << >> THEN 0 ELSE s[1] + SumSeq(Tail(s))

SumProd(x, y) == SumSeq([i \in 1..Len(x) |-> x[i] * y[i]])

\* least-squares fit of y over x as exact fractions: the slope in currency
\* units per month is num / den (sxy / sxx in cents per month), y in cents
linregress(x, y) ==
    LET n   == Len(x)
        sxy == n * SumProd(x, y) - SumSeq(x) * SumSeq(y)
        sxx == n * SumProd(x, x) - SumSeq(x) * SumSeq(x)
    IN  [num |-> sxy, den |-> 100 * sxx, sxy |-> sxy, sxx |-> sxx,
         sy |-> SumSeq(y), sx |-> SumSeq(x), n |-> n]

\* slope * x0 + intercept, in cents, as a fraction
Predict(fit, x0) ==
    [num |-> fit.sy * fit.sxx + fit.sxy * (fit.n * x0 - fit.sx),
     den |-> fit.n * fit.sxx]

\* the thresholds taken inclusive
TrendInclusive(slope) ==
    IF slope.num * 100 >= slope.den THEN "UPWARD"
    ELSE IF slope.num * 100 <= -slope.den THEN "DOWNWARD"
    ELSE "STABLE"

\* slope > 0.01, slope < -0.01 on the fraction num / den, den > 0
Trend(slope) ==
    IF slope.num * 100 > slope.den THEN "UPWARD"
    ELSE IF slope.num * 100 < -slope.den THEN "DOWNWARD"
    ELSE "STABLE"

\* the trend each fuel is given in the SUMMARY & OUTLOOK section
SummaryText ==
    [f \in { fuel_types[i] : i \in 1..3 } |-> "DOWNWARD"]

\* bounds of the series the regression is checked with
MaxStep == 2
MaxBump == 1

\* base + k cents a month, with month j moved by b cents
Series(k, j, b) ==
    [i \in 1..12 |-> 2000 + k * i + (IF i = j THEN b ELSE 0)]

SeriesPool ==
    { Series(k, j, b) : k \in -MaxStep..MaxStep, j \in { 1, 12 }, b \in 0..MaxBump }

NoFuel ==
    /\ df = << >>
    /\ fuel_idx = 0
    /\ predictions = << >>
    /\ summary = << >>

FuelUnchanged == UNCHANGED << df, fuel_idx, predictions, summary >>

(***************************************************************************)
(* The analyzer after construction, and its calls.                         *)
(***************************************************************************)
Init ==
    /\ teams = << >>
    /\ first_added = << >>
    /\ pc = "idle"
    /\ result = NoCall
    /\ NoFuel

AddTeam(t) ==
    /\ pc = "idle"
    /\ teams' = DictSet(teams, t)
    /\ first_added' = IF \E i \in 1..Len(first_added) : first_added[i] = t.name
                      THEN first_added ELSE Append(first_added, t.name)
    /\ UNCHANGED << pc, result >>
    /\ FuelUnchanged

CompareTeams(n1, n2) ==
    /\ pc = "idle"
    /\ result' = [op |-> "compare_teams", args |-> << n1, n2 >>,
                  ret |-> compare_teams(teams, n1, n2)]
    /\ pc' = "returned"
    /\ UNCHANGED << teams, first_added >>
    /\ FuelUnchanged

PredictOutcome(n1, n2) ==
    /\ pc = "idle"
    /\ result' = [op |-> "predict_outcome", args |-> << n1, n2 >>,
                  ret |-> predict_outcome(teams, n1, n2)]
    /\ pc' = "returned"
    /\ UNCHANGED << teams, first_added >>
    /\ FuelUnchanged

AnalyzeGroup(g) ==
    /\ pc = "idle"
    /\ result' = [op |-> "analyze_group", args |-> << g >>,
                  ret |-> analyze_group(teams, g)]
    /\ pc' = "returned"
    /\ UNCHANGED << teams, first_added >>
    /\ FuelUnchanged

GenerateReport ==
    /\ pc = "idle"
    /\ result' = [op |-> "generate_report", args |-> << >>,
                  ret |-> generate_report(teams)]
    /\ pc' = "returned"
    /\ UNCHANGED << teams, first_added >>
    /\ FuelUnchanged

\* the caller is done with the returned value
Return ==
    /\ pc = "returned"
    /\ pc' = "idle"
    /\ result' = NoCall
    /\ UNCHANGED << teams, first_added >>
    /\ FuelUnchanged

Next ==
    \/ \E t \in TeamPool : AddTeam(t)
    \/ \E n1 \in Names, n2 \in Names : CompareTeams(n1, n2)
    \/ \E n1 \in Names, n2 \in Names : PredictOutcome(n1, n2)
    \/ \E g \in Groups : AnalyzeGroup(g)
    \/ GenerateReport
    \/ Return

Spec == Init /\ [][Next]_vars

\* the first match of the report on any two records
InitPredict ==
    /\ \E t1 \in StatSpace("Ivory Coast"), t2 \in OpponentSpace("Mozambique") :
          teams = << t1, t2 >>
    /\ first_added = << "Ivory Coast", "Mozambique" >>
    /\ pc = "idle"
    /\ result = NoCall
    /\ NoFuel

NextPredict ==
    \/ CompareTeams("Ivory Coast", "Mozambique")
    \/ PredictOutcome("Ivory Coast", "Mozambique")
    \/ Return

SpecPredict == InitPredict /\ [][NextPredict]_vars


(***************************************************************************)
(* fuel_price_prediction.py: the regression loop and the summary.          *)
(***************************************************************************)
InitFuel ==
    /\ \E p \in SeriesPool \cup { petrol_prices },
          d \in SeriesPool \cup { diesel_prices },
          l \in SeriesPool \cup { lpg_prices } :
          df = [f \in DOMAIN DataFrame |->
                   IF f = fuel_types[1] THEN p
                   ELSE IF f = fuel_types[2] THEN d ELSE l]
    /\ fuel_idx = 0
    /\ predictions = << >>
    /\ summary = << >>
    /\ teams = << >>
    /\ first_added = << >>
    /\ pc = "idle"
    /\ result = NoCall

\* one iteration of: for fuel in fuel_types
Regress ==
    /\ df # << >>
    /\ fuel_idx < Len(fuel_types)
    /\ LET fuel   == fuel_types[fuel_idx + 1]
           prices == df[fuel]
           fit    == linregress(month_numbers, prices)
           slope  == [num |-> fit.num, den |-> fit.den]
           entry  == [slope            |-> slope,
                      current_price    |-> prices[Len(prices)],
                      predicted_prices |-> << Predict(fit, 13), Predict(fit, 14), Predict(fit, 15) >>,
                      trend            |-> Trend(slope)]
       IN  predictions' = [f \in DOMAIN predictions \cup { fuel } |->
                              IF f = fuel THEN entry ELSE predictions[f]]
    /\ fuel_idx' = fuel_idx + 1
    /\ UNCHANGED << df, summary, teams, first_added, pc, result >>

\* the SUMMARY & OUTLOOK section
Summary ==
    /\ df # << >>
    /\ fuel_idx = Len(fuel_types)
    /\ summary = << >>
    /\ summary' = SummaryText
    /\ UNCHANGED << df, fuel_idx, predictions, teams, first_added, pc, result >>

NextFuel == Regress \/ Summary

SpecFuel == InitFuel /\ [][NextFuel]_vars


(***************************************************************************)
(* Properties                                                              *)
(***************************************************************************)
Ret == result.ret
IsCall(op) == pc = "returned" /\ result.op = op
BothPresent == HasTeam(teams, result.args[1]) /\ HasTeam(teams, result.args[2])
Tenths(n) == DecOfInt(n)
DecIsZero(d) == d.mag = << >>
Position(names, n) == CHOOSE i \in 1..Len(names) : names[i] = n

\* C1: with main()'s Ivory Coast and Mozambique records in the mapping,
\* predict_outcome("Ivory Coast", "Mozambique") reports a win probability
\* strictly above 50% for Ivory Coast.
C1_FirstTeamFavoured ==
    (/\ IsCall("predict_outcome")
     /\ result.args = << "Ivory Coast", "Mozambique" >>
     /\ get_team(teams, "Ivory Coast") = IvoryCoast
     /\ get_team(teams, "Mozambique") = Mozambique)
    => ~DecLeq(Ret.prediction["Ivory Coast"], Tenths(500))

\* C2: for two teams of the mapping the two reported percentages, each
\* rounded to 1 decimal, sum to 100.0 within 0.1.
C2_ProbabilitiesSumTo100 ==
    (IsCall("predict_outcome") /\ BothPresent)
    => LET p   == Ret.prediction
           sum == DecAdd(p[result.args[1]], p[result.args[2]])
       IN  DecLeq(Tenths(999), sum) /\ DecLeq(sum, Tenths(1001))

\* C3: compare_teams and predict_outcome called with an absent name return
\* the "error" indicator and nothing else, and raise nothing; with both
\* names present the returned structure has no "error" field.
C3_NotFoundIndicator ==
    (IsCall("compare_teams") \/ IsCall("predict_outcome"))
    => /\ "fault" \notin DOMAIN Ret
       /\ IF BothPresent THEN "error" \notin DOMAIN Ret
          ELSE DOMAIN Ret = { "error" }

C3_Witness ==
    /\ IsCall("predict_outcome")
    /\ Len(teams) >= 2
    /\ HasTeam(teams, result.args[1])
    /\ ~HasTeam(teams, result.args[2])
    /\ Ret = NotFound

\* C4: generate_report returns a report, whatever names the mapping lacks:
\* it never faults on a missing 'prediction' or 'estimated_goals' field.
C4_ReportNeverFaults ==
    IsCall("generate_report") => "fault" \notin DOMAIN Ret

\* C5: the list analyze_group returns is sorted: for adjacent entries
\* points[i] >= points[i+1], and on equal points
\* goal_difference[i] >= goal_difference[i+1].
C5_StandingsSorted ==
    IsCall("analyze_group")
    => \A i \in 1..Len(Ret) - 1 :
          /\ Ret[i].points >= Ret[i + 1].points
          /\ Ret[i].points = Ret[i + 1].points
             => Ret[i].goal_difference >= Ret[i + 1].goal_difference

C5_Witness ==
    /\ IsCall("analyze_group")
    /\ Len(Ret) >= 3
    /\ \E i \in 1..Len(Ret) - 1 :
          /\ Ret[i].points = Ret[i + 1].points
          /\ Ret[i].goal_difference > Ret[i + 1].goal_difference
          /\ Ret[i + 1].goal_difference < 0

\* C6: a record with matches_played = 0 has avg_goals_per_match,
\* win_percentage and defense_strength equal to 0, whatever its wins and
\* goals are, and no division by zero is raised.
C6_ZeroMatchesZeroMetrics ==
    (IsCall("compare_teams") /\ BothPresent)
    => /\ "fault" \notin DOMAIN Ret
       /\ \A n \in { result.args[1], result.args[2] } :
             get_team(teams, n).matches_played = 0
             => /\ DecIsZero(Ret.offensive_power[n])
                /\ DecIsZero(Ret.win_percentage[n])
                /\ DecIsZero(Ret.defensive_strength[n])

C6_Witness ==
    /\ IsCall("compare_teams")
    /\ \E n \in { result.args[1], result.args[2] } :
          /\ HasTeam(teams, n)
          /\ get_team(teams, n).matches_played = 0
          /\ get_team(teams, n).wins > 0
          /\ get_team(teams, n).goals_for > 0
          /\ get_team(teams, n).goals_against > 0
          /\ "offensive_power" \in DOMAIN Ret
          /\ DecIsZero(Ret.offensive_power[n])

\* C7: the trend of a fitted series is one of UPWARD, DOWNWARD, STABLE;
\* it is UPWARD exactly when slope > 0.01, DOWNWARD exactly when
\* slope < -0.01, STABLE otherwise (slope = 0.01 and slope = -0.01 included).
C7_TrendBySlope ==
    \A f \in DOMAIN predictions :
        LET slope == predictions[f].slope
            trend == predictions[f].trend
            above == slope.num * 100 > slope.den
            below == slope.num * 100 < -slope.den
        IN  /\ trend \in { "UPWARD", "DOWNWARD", "STABLE" }
            /\ (trend = "UPWARD") <=> above
            /\ (trend = "DOWNWARD") <=> below
            /\ (trend = "STABLE") <=> (~above /\ ~below)

C7_Witness ==
    /\ \E f \in DOMAIN predictions :
          /\ predictions[f].slope.num * 100 = predictions[f].slope.den
          /\ predictions[f].trend = "STABLE"
    /\ \E f \in DOMAIN predictions :
          /\ predictions[f].slope.num * 100 = -predictions[f].slope.den
          /\ predictions[f].trend = "STABLE"

\* C8: analyze_group(g) lists exactly the teams of the mapping whose group
\* is g, each once, with their current records and positions 1..n, and two
\* listed teams equal on points and goal difference appear in the order in
\* which their names were first added.
C8_StandingsMembersAndTies ==
    IsCall("analyze_group")
    => LET g       == result.args[1]
           members == { i \in 1..Len(teams) : teams[i].group = g }
       IN  /\ Len(Ret) = Cardinality(members)
           /\ { Ret[i].team : i \in 1..Len(Ret) } = { teams[i].name : i \in members }
           /\ \A i \in 1..Len(Ret) :
                 /\ Ret[i].position = i
                 /\ Ret[i].points = get_team(teams, Ret[i].team).points
                 /\ Ret[i].goal_difference = goal_difference(get_team(teams, Ret[i].team))
           /\ \A i \in 1..Len(Ret), j \in 1..Len(Ret) :
                 (/\ i < j
                  /\ Ret[i].points = Ret[j].points
                  /\ Ret[i].goal_difference = Ret[j].goal_difference)
                 => Position(first_added, Ret[i].team) < Position(first_added, Ret[j].team)

C8_Witness ==
    /\ IsCall("analyze_group")
    /\ Len(Ret) >= 3
    /\ Len(teams) > Len(Ret)
    /\ \E i \in 1..Len(Ret) - 1 :
          /\ Ret[i].points = Ret[i + 1].points
          /\ Ret[i].goal_difference = Ret[i + 1].goal_difference

\* C9: each of the two win probabilities predict_outcome returns for two
\* teams of the mapping lies between 0% and 100% inclusive.
C9_ProbabilityRange ==
    (IsCall("predict_outcome") /\ BothPresent)
    => \A n \in DOMAIN Ret.prediction :
          /\ DecLeq(Tenths(0), Ret.prediction[n])
          /\ DecLeq(Ret.prediction[n], Tenths(1000))

\* C10: for the three series of the script, the trend printed in the
\* SUMMARY & OUTLOOK section is the trend the regression step classified.
C10_SummaryMatchesRegression ==
    (df = DataFrame /\ summary # << >>)
    => \A f \in DOMAIN summary : summary[f] = predictions[f].trend


====
